---- MODULE Spec2Model ----
\* Mixture of Experts (smt/extensions/moe.py): the train / predict_values life
\* cycle of one MOE instance, and the pure helpers it is built from.
\*
\* Conventions
\*   - Python lists and numpy arrays are sequences; Python index k is TLA+ index k+1.
\*   - A float is an exact rational <<n, d>> in lowest terms with d > 0.
\*   - An attribute that may not exist yet on the instance is <<>> (absent) or <<v>>.
\*   - A call that may raise returns [err |-> "<ExceptionName>", val |-> <<>>] when it
\*     raises and [err |-> "", val |-> v] when it returns v.
EXTENDS Integers, Sequences, FiniteSets, Bags, TLC

VARIABLES
    \* ---- the MOE instance -------------------------------------------------
    frame,            \* the locals of the running _apply(): x (its row count), number_cluster
    surrogate_type,   \* self._surrogate_type, as the sequence its iteration yields
    values,           \* self.values
    training_values,  \* self.training_values
    test_values,      \* self.test_values
    hard,             \* self.hard
    scale_factor,     \* self.scale_factor
    number_cluster,   \* self.number_cluster
    cluster,          \* self.cluster (the clustering provider's estimator)
    gauss,            \* self.gauss
    dimension,        \* self.dimension
    model_list,       \* self.model_list
    valid_hard,       \* self.valid_hard
    valid_smooth,     \* self.valid_smooth
    \* ---- control and observation ------------------------------------------
    pc,               \* how far the running (or last) train() call got
    ret,              \* outcome of the last public call
    provider_calls,        \* calls of the current train() that reached the clustering provider
    selector_calls,   \* _find_best_model invocations of the current train() call
    inherited,        \* how many local models the instance held when train() was last called
    \* ---- a single call of a pure helper -----------------------------------
    call,             \* the helper's arguments
    result            \* what it returned

moeVars == <<frame, surrogate_type, values, training_values, test_values,
             hard, scale_factor, number_cluster, cluster, gauss, dimension,
             model_list, valid_hard, valid_smooth>>
obsVars == <<pc, ret, provider_calls, selector_calls, inherited>>
funVars == <<call, result>>
vars == <<moeVars, obsVars, funVars>>

-----------------------------------------------------------------------------
\* Bounds of the explored input space

\* longest list handed to cut_list on its own
MaxLen == 12
\* most samples handed to sort_values_by_cluster on its own
MaxRows == 4
\* most clusters handed to the helpers on their own
MaxK == 3
\* largest density value a frozen distribution yields
MaxDens == 1
\* longest batch handed to the gate and to predict_values
MaxBatch == 2
\* largest validation error a candidate can score in _find_best_model on its own
MaxErr == 2

-----------------------------------------------------------------------------
\* Generic helpers

Range(s) == {s[i] : i \in DOMAIN s}

SeqsUpTo(S, n) == UNION {[1..m -> S] : m \in 0..n}

Perms(S) == {p \in [1..Cardinality(S) -> S] : Range(p) = S}

RECURSIVE SeqSum(_)
SeqSum(s) == IF s = <<>> THEN 0 ELSE Head(s) + SeqSum(Tail(s))

RECURSIVE SeqToBag(_)
SeqToBag(s) == IF s = <<>> THEN EmptyBag ELSE SeqToBag(Tail(s)) (+) SetToBag({Head(s)})

RECURSIVE Flatten(_)
Flatten(ss) == IF ss = <<>> THEN <<>> ELSE Head(ss) \o Flatten(Tail(ss))

\* an attribute the instance does not have (yet)
Unset == <<>>

Ok(v) == [err |-> "", val |-> v]
Raise(e) == [err |-> e, val |-> <<>>]

-----------------------------------------------------------------------------
\* Floats as exact rationals

Abs(n) == IF n < 0 THEN -n ELSE n

RECURSIVE GCD(_, _)
GCD(a, b) == IF b = 0 THEN a ELSE GCD(b, a % b)

Rat(n, d) ==
    LET g == GCD(Abs(n), Abs(d))
        s == IF d < 0 THEN -1 ELSE 1
    IN  <<(s * n) \div g, (s * d) \div g>>

Int2Rat(n) == <<n, 1>>
RAdd(a, b) == Rat(a[1] * b[2] + b[1] * a[2], a[2] * b[2])
RSub(a, b) == Rat(a[1] * b[2] - b[1] * a[2], a[2] * b[2])
RMul(a, b) == Rat(a[1] * b[1], a[2] * b[2])
RDiv(a, b) == Rat(a[1] * b[2], a[2] * b[1])
RLess(a, b) == a[1] * b[2] < b[1] * a[2]

RECURSIVE RSum(_)
RSum(s) == IF s = <<>> THEN Int2Rat(0) ELSE RAdd(Head(s), RSum(Tail(s)))

-----------------------------------------------------------------------------
\* cut_list and concat_except (the train / validation split)

\* The two nested while loops of cut_list: i walks the list, j walks the blocks;
\* j = n ends the inner loop and the outer loop starts it again at 0.
RECURSIVE CutLoop(_, _, _, _, _)
CutLoop(list_, n, i, j, n_list) ==
    IF i >= Len(list_) THEN n_list
    ELSE IF j >= n THEN CutLoop(list_, n, i, 0, n_list)
    ELSE CutLoop(list_, n, i + 1, j + 1,
                 [n_list EXCEPT ![j + 1] = Append(@, list_[i + 1])])

cut_list(list_, n) == CutLoop(list_, n, 0, 0, [k \in 1..n |-> <<>>])

RECURSIVE ConcatLoop(_, _, _, _)
ConcatLoop(list_, n, i, nlist) ==
    IF i >= Len(list_) THEN nlist
    ELSE ConcatLoop(list_, n, i + 1, IF i # n THEN nlist \o list_[i + 1] ELSE nlist)

\* a concat_except that leaves out the block after the one asked for
concat_except_next(list_, n) == ConcatLoop(list_, n + 1, 0, <<>>)

concat_except(list_, n) == ConcatLoop(list_, n, 0, <<>>)

\* np.vstack: stacks the rows; an empty list of rows is a ValueError
vstack(rows) == IF rows = <<>> THEN Raise("ValueError") ELSE Ok(rows)

\* the number of blocks train() cuts the data in
NumBlocks == 10
\* the block train() keeps for validation
ValidBlock == 0

-----------------------------------------------------------------------------
\* sort_values_by_cluster (the partitioner)

RECURSIVE SortLoop(_, _, _, _)
SortLoop(vals, sort_cluster, i, sorted_values) ==
    IF i >= Len(sort_cluster) THEN sorted_values
    ELSE SortLoop(vals, sort_cluster, i + 1,
                  [sorted_values EXCEPT ![sort_cluster[i + 1] + 1] = Append(@, vals[i + 1])])

\* a partitioner that starts at the second row
sort_values_skip_first(vals, nb_cluster, sort_cluster) ==
    SortLoop(vals, sort_cluster, 1, [k \in 1..nb_cluster |-> <<>>])

sort_values_by_cluster(vals, nb_cluster, sort_cluster) ==
    SortLoop(vals, sort_cluster, 0, [k \in 1..nb_cluster |-> <<>>])

-----------------------------------------------------------------------------
\* The Gaussian gate: create_multivar_normal_dis, _proba_cluster_one_sample,
\* proba_cluster. A frozen distribution is the table of its density over the
\* sample points, and .pdf(x) looks the table up.

\* the sample points (input vectors x)
XDom == {0, 1}

pdf(rv, x) == rv[x]

\* the weights of a K-component mixture, as integer proportions
Weights(k) == {[j \in 1..k |-> 1], [j \in 1..k |-> j]}

\* the frozen distributions of a K-component mixture, each as its density table
Distributions(k) == [1..k -> [XDom -> 0..MaxDens]]

\* the batches of sample points handed to the gate and to predict_values
Batches == SeqsUpTo(XDom, MaxBatch)

\* sct.multivariate_normal(mean, cov): the frozen distribution of a component
\* with its mean at sample point m (the covariance, scaled by scale_factor = 1,
\* is the same for every component): density 1 at the mean, 0 elsewhere
Frozen(m) == [x \in XDom |-> IF x = m THEN 1 ELSE 0]

\* one frozen distribution per component of the mixture
RECURSIVE GaussLoop(_, _, _)
GaussLoop(means, k, gauss_array) ==
    IF k >= Len(means) THEN gauss_array
    ELSE GaussLoop(means, k + 1, Append(gauss_array, Frozen(means[k + 1])))

create_multivar_normal_dis(means) == GaussLoop(means, 0, <<>>)

\* first loop of _proba_cluster_one_sample: <<prob, rad>> after k components
RECURSIVE ValLoop(_, _, _, _, _, _)
ValLoop(weight, gauss_list, x, k, prob, rad) ==
    IF k >= Len(weight) THEN <<prob, rad>>
    ELSE LET rv == pdf(gauss_list[k + 1], x)
             val == RMul(Int2Rat(weight[k + 1]), Int2Rat(rv))
         IN  ValLoop(weight, gauss_list, x, k + 1, Append(prob, val), RAdd(rad, val))

\* a second loop that never divides
NormalizeNever(prob, rad) == prob

\* second loop: prob[k] = prob[k] / rad, only when rad != 0
Normalize(prob, rad) ==
    IF rad # Int2Rat(0) THEN [k \in DOMAIN prob |-> RDiv(prob[k], rad)] ELSE prob

\* max(prob): the largest entry
MaxOf(prob) == CHOOSE m \in Range(prob) : \A q \in Range(prob) : ~RLess(m, q)

\* the last index holding v
LastIndexOf(prob, v) == (CHOOSE i \in DOMAIN prob : prob[i] = v /\ \A j \in (i + 1)..Len(prob) : prob[j] # v) - 1

\* prob.index(v): the first index holding v
IndexOf(prob, v) == (CHOOSE i \in DOMAIN prob : prob[i] = v /\ \A j \in 1..(i - 1) : prob[j] # v) - 1

ArgMax(prob) == IndexOf(prob, MaxOf(prob))

\* [prob, clus, evals]: evals counts the .pdf calls made
proba_cluster_one_sample(weight, gauss_list, x) ==
    LET vr == ValLoop(weight, gauss_list, x, 0, <<>>, Int2Rat(0))
        prob == Normalize(vr[1], vr[2])
    IN  [prob |-> prob, clus |-> ArgMax(prob), evals |-> Len(weight)]

\* a loop body without the branch for one component
ProbaRowNoShortcut(weight, gauss_list, xi) == proba_cluster_one_sample(weight, gauss_list, xi)

\* the body of the loop of proba_cluster: with one component the row is [1] and
\* the label 0, and no density is evaluated
ProbaRow(weight, gauss_list, xi) ==
    IF Len(weight) = 1
    THEN [prob |-> <<Int2Rat(1)>>, clus |-> 0, evals |-> 0]
    ELSE proba_cluster_one_sample(weight, gauss_list, xi)

RECURSIVE ProbaLoop(_, _, _, _, _)
ProbaLoop(weight, gauss_list, x, i, acc) ==
    IF i >= Len(x) THEN acc
    ELSE LET one == ProbaRow(weight, gauss_list, x[i + 1])
         IN  ProbaLoop(weight, gauss_list, x, i + 1,
                       [prob |-> Append(acc.prob, one.prob),
                        clus |-> Append(acc.clus, one.clus),
                        evals |-> acc.evals + one.evals])

\* proba_cluster: an empty weight list makes max() of an empty list raise, and
\* fewer distributions than weights make gauss_list[k] raise
proba_cluster(weight, gauss_list, x) ==
    IF Len(x) > 0 /\ Len(weight) = 0 THEN Raise("ValueError")
    ELSE IF Len(x) > 0 /\ Len(weight) > 1 /\ Len(gauss_list) < Len(weight) THEN Raise("IndexError")
    ELSE Ok(<<ProbaLoop(weight, gauss_list, x, 0, [prob |-> <<>>, clus |-> <<>>, evals |-> 0])>>)

-----------------------------------------------------------------------------
\* Local regressors (external): a trained regressor is the pair of its type name
\* and the rows it was last trained on, and its prediction at x is a fixed
\* function of the two.

TrainModel(name, rows) == [name |-> name, data |-> rows]

Retrain(model, rows) == [model EXCEPT !.data = rows]

SumY(rows) == SeqSum([j \in DOMAIN rows |-> rows[j].y])

PredictValue(model, x) ==
    IF model.name = "LS" THEN (SumY(model.data) + x) % 3
    ELSE IF model.name = "QP" THEN (Len(model.data) + 2 * x) % 3
    ELSE x

\* Sum of squared errors and mean squared error of predictions (rationals)
SqErr(expected, actual) ==
    RSum([j \in DOMAIN expected |->
            RMul(RSub(expected[j], actual[j]), RSub(expected[j], actual[j]))])

Mse(expected, actual) == RDiv(SqErr(expected, actual), Int2Rat(Len(expected)))

\* mse ** 0.5 is kept as the rational under the root; roots compare as their
\* radicands do
Sqrt(q) == [sqrt_of |-> q]
SqrtLess(a, b) == RLess(a.sqrt_of, b.sqrt_of)

-----------------------------------------------------------------------------
\* _find_best_model (the model selector)

\* the names the search skips
Excluded == {"RMTC", "RMTB", "GEKPLS", "KRG"}

\* first loop: the catalog entries that are trained and scored, in catalog order
RECURSIVE ScoreLoop(_, _, _)
ScoreLoop(catalog, i, evaluated) ==
    IF i >= Len(catalog) THEN evaluated
    ELSE ScoreLoop(catalog, i + 1,
                   IF catalog[i + 1] \in Excluded THEN evaluated
                   ELSE Append(evaluated, catalog[i + 1]))

\* rmse <= best_rmse: the last of several equal scores would win
BetterOrEqual(rmse, best_rmse) == ~SqrtLess(best_rmse, rmse)

\* rmse < best_rmse
Better(rmse, best_rmse) == SqrtLess(rmse, best_rmse)

\* second loop: walks the rmses table in its own iteration order; best is <<>>
\* (None) or <<name, rmse>>
RECURSIVE BestLoop(_, _, _, _)
BestLoop(order, rmses, i, best) ==
    IF i >= Len(order) THEN best
    ELSE LET name == order[i + 1]
             rmse == rmses[name]
         IN  BestLoop(order, rmses, i + 1,
                      IF best = <<>> \/ Better(rmse, best[2]) THEN <<name, rmse>> ELSE best)

\* catalog: the iteration of self._surrogate_type; order: the iteration of the
\* rmses table (the evaluated names in some order); sms, rmses: what training and
\* scoring gave for each name; group: the rows of the cluster.
\* val is <<model>>; evaluated lists the candidates trained and scored.
find_best_model(catalog, order, group, sms, rmses) ==
    LET evaluated == ScoreLoop(catalog, 0, <<>>)
        iter == SelectSeq(order, LAMBDA n : n \in Range(evaluated))
        best == BestLoop(iter, rmses, 0, <<>>)
    IN  IF evaluated # <<>> /\ group = <<>>
        THEN [err |-> "IndexError", val |-> <<>>, evaluated |-> <<>>]
        ELSE IF best = <<>>
        THEN [err |-> "KeyError", val |-> <<>>, evaluated |-> evaluated]
        ELSE [err |-> "", val |-> <<sms[best[1]]>>, evaluated |-> evaluated]

-----------------------------------------------------------------------------
\* The recombiner: _predict_hard_output and _predict_smooth_output, as functions
\* of the attributes they read (each <<>> when the instance has no such attribute)

\* the attributes both predictors pass to proba_cluster
GateArgsMissing(dim, clu, gau) ==
    dim = Unset \/ clu = Unset \/ gau = Unset \/ (clu # Unset /\ ~clu[1].fitted)

RECURSIVE HardLoop(_, _, _, _, _)
HardLoop(models, sort_cluster, x, i, predicted_values) ==
    IF i >= Len(sort_cluster) THEN Ok(predicted_values)
    ELSE IF models = Unset THEN Raise("AttributeError")
    ELSE IF sort_cluster[i + 1] >= Len(models[1]) THEN Raise("IndexError")
    ELSE HardLoop(models, sort_cluster, x, i + 1,
                  Append(predicted_values,
                         Int2Rat(PredictValue(models[1][sort_cluster[i + 1] + 1], x[i + 1]))))

predict_hard_output(dim, clu, gau, models, x) ==
    IF GateArgsMissing(dim, clu, gau) THEN Raise("AttributeError")
    ELSE LET pr == proba_cluster(clu[1].weights_, gau[1], x)
         IN  IF pr.err # "" THEN Raise(pr.err)
             ELSE HardLoop(models, pr.val[1].clus, x, 0, <<>>)

\* inner loop over j in range(len(self.model_list))
RECURSIVE BlendLoop(_, _, _, _, _)
BlendLoop(models, proba, xi, j, recombined_value) ==
    IF j >= Len(models) THEN Ok(recombined_value)
    ELSE IF j >= Len(proba) THEN Raise("IndexError")
    ELSE BlendLoop(models, proba, xi, j + 1,
                   RAdd(recombined_value,
                        RMul(Int2Rat(PredictValue(models[j + 1], xi)), proba[j + 1])))

RECURSIVE SmoothLoop(_, _, _, _, _)
SmoothLoop(models, sort_proba, x, i, predicted_values) ==
    IF i >= Len(sort_proba) THEN Ok(predicted_values)
    ELSE IF models = Unset THEN Raise("AttributeError")
    ELSE LET b == BlendLoop(models[1], sort_proba[i + 1], x[i + 1], 0, Int2Rat(0))
         IN  IF b.err # "" THEN Raise(b.err)
             ELSE SmoothLoop(models, sort_proba, x, i + 1, Append(predicted_values, b.val))

predict_smooth_output(dim, clu, gau, models, x) ==
    IF GateArgsMissing(dim, clu, gau) THEN Raise("AttributeError")
    ELSE LET pr == proba_cluster(clu[1].weights_, gau[1], x)
         IN  IF pr.err # "" THEN Raise(pr.err)
             ELSE SmoothLoop(models, pr.val[1].prob, x, 0, <<>>)

\* _analyse_results(x, 'predict_values')
analyse_results(x) ==
    IF hard = Unset THEN Raise("AttributeError")
    ELSE IF hard[1] THEN predict_hard_output(dimension, cluster, gauss, model_list, x)
    ELSE predict_smooth_output(dimension, cluster, gauss, model_list, x)

-----------------------------------------------------------------------------
\* Error (the validation report)

RPow5(q) == RMul(q, RMul(RMul(q, q), RMul(q, q)))

Error(y_array_true, y_array_calc) ==
    LET length == Len(y_array_true)
        l_two_sq == SqErr(y_array_true, y_array_calc)
        mse == RDiv(l_two_sq, Int2Rat(length))
    IN  [l_two_sq |-> l_two_sq, mse |-> mse, rmse |-> RPow5(mse)]

-----------------------------------------------------------------------------
\* The instance right after construction: the declared option defaults, and no
\* attribute set by train() yet.

\* no _apply() is running
NoFrame == [x |-> 0, number_cluster |-> 0]

Constructed ==
    /\ frame = NoFrame
    /\ values = Unset /\ training_values = Unset /\ test_values = Unset
    /\ hard = Unset /\ scale_factor = Unset /\ number_cluster = Unset
    /\ cluster = Unset /\ gauss = Unset /\ dimension = Unset
    /\ model_list = Unset /\ valid_hard = Unset /\ valid_smooth = Unset
    /\ pc = "Configured"
    /\ ret = [op |-> "none", err |-> ""]
    /\ provider_calls = 0 /\ selector_calls = 0 /\ inherited = 0

NoCall == [fn |-> "none"]
NoResult == <<>>

\* the instance a helper specification leaves aside
Aside ==
    /\ Constructed
    /\ surrogate_type = <<>>

-----------------------------------------------------------------------------
\* _fit_without_clustering

\* what training and scoring each catalog entry on a cluster's rows gives
\* (lines 312-325 of _find_best_model)
Candidates(catalog, group) == [n \in Range(catalog) |-> TrainModel(n, group)]

Scores(catalog, group, test) ==
    [n \in Range(catalog) |->
        Sqrt(Mse([j \in DOMAIN test |-> Int2Rat(test[j].y)],
                 [j \in DOMAIN test |-> Int2Rat(PredictValue(TrainModel(n, group), test[j].x))]))]

\* the loop over the clusters; st = [err, model_list, selector_calls]
RECURSIVE FitLoop(_, _, _, _, _, _, _, _)
FitLoop(catalog, order, test, trained_cluster, nb_cluster, new_model, clus, st) ==
    IF clus >= nb_cluster THEN st
    ELSE LET group == trained_cluster[clus + 1] IN
         IF new_model
         THEN IF Len(catalog) = 1
              THEN [st EXCEPT !.err = "UnboundLocalError"]
              ELSE LET r == find_best_model(catalog, order, group,
                                            Candidates(catalog, group), Scores(catalog, group, test))
                   IN  IF r.err # ""
                       THEN [st EXCEPT !.err = r.err, !.selector_calls = @ + 1]
                       ELSE FitLoop(catalog, order, test, trained_cluster, nb_cluster, new_model, clus + 1,
                                    [st EXCEPT !.model_list = Append(@, r.val[1]),
                                               !.selector_calls = @ + 1])
         ELSE IF group = <<>> \/ clus >= Len(st.model_list)
              THEN [st EXCEPT !.err = "IndexError"]
              ELSE FitLoop(catalog, order, test, trained_cluster, nb_cluster, new_model, clus + 1,
                           [st EXCEPT !.model_list[clus + 1] = Retrain(@, group)])

\* rows: the rows of x_trained, y_trained, c_trained; clu: the fitted estimator
fit_without_clustering(catalog, order, test, clu, nb_cluster, models, calls, rows, new_model) ==
    LET sort_cluster == [j \in DOMAIN rows |-> clu.labels[rows[j].x]]
        trained_cluster == sort_values_by_cluster(rows, nb_cluster, sort_cluster)
    IN  FitLoop(catalog, order, test, trained_cluster, nb_cluster, new_model, 0,
                [err |-> "", model_list |-> models, selector_calls |-> calls])

-----------------------------------------------------------------------------
\* Spec: one MOE instance. The caller sets options, calls train() and
\* predict_values(); train() runs through its steps without interleaving.

\* the data sets a caller supplies: row i of a data set has x = (i div 2) mod 2
\* and y = x + 1, and the clustering criterion c defaults to y
Row(i) == [i |-> i, x |-> (i \div 2) % 2, y |-> ((i \div 2) % 2) + 1]
Rows(n) == [j \in 1..n |-> Row(j - 1)]

\* row counts of X the caller may supply
DataLens == {1, 2, 11}

\* the options X and y as supplied: both absent (the default), aligned, or y one
\* row longer
DataOptions ==
    {[X |-> Unset, y |-> Unset]} \cup {[X |-> <<n>>, y |-> <<n>>] : n \in DataLens}
        \cup {[X |-> <<2>>, y |-> <<3>>]}

\* the option number_cluster as supplied
ClusterOptions == -1..2

\* lines 109-111 on each of these data sets: cut_list, concat_except, np.vstack
SplitOf ==
    [n \in DataLens |->
        LET cut_values == cut_list(Rows(n), NumBlocks)
        IN  [training |-> vstack(concat_except(cut_values, ValidBlock)),
             test |-> vstack(cut_values[ValidBlock + 1])]]

Catalogs == {<<"LS">>, <<"KRG", "LS", "QP">>}

Idle == pc \in {"Configured", "Trained", "Aborted"}

Init ==
    /\ Constructed
    /\ surrogate_type \in Catalogs
    /\ call = NoCall
    /\ result = NoResult

Running == [op |-> "train", err |-> ""]
Aborted(e) == pc' = "Aborted" /\ ret' = [op |-> "train", err |-> e] /\ frame' = NoFrame

\* the local models the instance holds
ModelsHeld == IF model_list = Unset THEN <<>> ELSE model_list[1]

\* a train() that goes on with the list it finds
KeepModels(held) == held

\* self.model_list = [] (line 101), whatever the list held
ResetModels(held) == <<>>

\* The caller sets the options (moe.options[...] = ...) and calls train().
\* train(), lines 76-119: read the options, check the rows, reset the model
\* list, split
TrainSplit ==
    /\ Idle
    /\ provider_calls' = 0
    /\ inherited' = Len(ModelsHeld)
    /\ selector_calls' = 0
    /\ UNCHANGED <<surrogate_type, number_cluster, cluster, gauss,
                   dimension, valid_hard, valid_smooth, funVars>>
    /\ \E d \in DataOptions, k \in ClusterOptions, h \in BOOLEAN :
          IF d.X = Unset \/ d.y = Unset \/ d.X # d.y
          THEN /\ Aborted("ValueError")
               /\ UNCHANGED <<values, training_values, test_values, hard, scale_factor, model_list>>
          ELSE LET tr == SplitOf[d.X[1]].training
                   te == SplitOf[d.X[1]].test
               IN  /\ scale_factor' = <<1>>
                   /\ hard' = <<h>>
                   /\ model_list' = <<ResetModels(ModelsHeld)>>
                   /\ values' = <<Rows(d.X[1])>>
                   /\ IF tr.err # ""
                      THEN /\ Aborted(tr.err)
                           /\ UNCHANGED <<training_values, test_values>>
                      ELSE IF te.err # ""
                      THEN /\ Aborted(te.err)
                           /\ training_values' = <<tr.val>>
                           /\ UNCHANGED test_values
                      ELSE /\ training_values' = <<tr.val>>
                           /\ test_values' = <<te.val>>
                           /\ frame' = [x |-> d.X[1], number_cluster |-> k]
                           /\ pc' = "Split"
                           /\ ret' = Running

\* int(len(x) / 10) + 1, on the x of the options
max_number_cluster(len_x) == (len_x \div 10) + 1

\* self.number_cluster > max_number_cluster
TooManyClusters(k, max) == k > max

\* what the provider's fit can leave in the estimator for k components
FitResults(k) ==
    {[n_components |-> k, fitted |-> TRUE, weights_ |-> w, means_ |-> m, labels |-> l] :
        <<w, m, l>> \in Weights(k) \X [1..k -> XDom] \X [XDom -> 0..(k - 1)]}

Unfitted(k) == [n_components |-> k, fitted |-> FALSE, weights_ |-> <<>>, means_ |-> <<>>,
                labels |-> [x \in XDom |-> 0]]

\* the rows the provider is fitted on (line 139: x_trained, c_trained)
ClusterFitRows == training_values[1]

\* the estimator after fit(rows): what fit left in it, and the rows it saw
FittedOn(f, rows) ==
    [n_components |-> f.n_components, fitted |-> f.fitted, weights_ |-> f.weights_,
     means_ |-> f.means_, labels |-> f.labels, X |-> rows]

\* train(), lines 121-139: choose the number of clusters, check it, build the
\* estimator and fit it on the training rows
TrainCluster ==
    /\ pc = "Split"
    /\ UNCHANGED <<surrogate_type, values, training_values, test_values,
                   hard, scale_factor, gauss, dimension, model_list, valid_hard, valid_smooth,
                   selector_calls, inherited, funVars>>
    /\ IF frame.number_cluster = 0
       THEN \* self._default_number_cluster is not defined
            /\ Aborted("AttributeError")
            /\ UNCHANGED <<number_cluster, cluster, provider_calls>>
       ELSE /\ number_cluster' = <<frame.number_cluster>>
            /\ IF TooManyClusters(frame.number_cluster, max_number_cluster(frame.x))
               THEN /\ Aborted("ValueError")
                    /\ UNCHANGED <<cluster, provider_calls>>
               ELSE /\ provider_calls' = provider_calls + 1
                    /\ IF frame.number_cluster < 1
                       THEN \* no mixture has fewer than one component: the
                            \* provider raises, building the estimator or fitting it
                            /\ \/ UNCHANGED cluster
                               \/ cluster' = <<Unfitted(frame.number_cluster)>>
                            /\ Aborted("ValueError")
                       ELSE /\ \E f \in FitResults(frame.number_cluster) :
                                  cluster' = <<FittedOn(f, ClusterFitRows)>>
                            /\ pc' = "Clustered"
                            /\ UNCHANGED <<ret, frame>>

\* every row of the data set, where only the training rows are meant
AllRows == values[1]

\* the rows handed to _fit_without_clustering by the first call (line 142)
FirstFitRows == training_values[1]

\* and by the last (line 166)
RefitRows == values[1]

\* new_model of the call at line 166
RefitAsNewModel == TRUE
RefitNewModel == FALSE

FitStep(rows, new_model, next) ==
    \E order \in Perms(Range(surrogate_type) \ Excluded) :
      LET st == fit_without_clustering(surrogate_type, order, test_values[1], cluster[1],
                                       number_cluster[1], model_list[1], selector_calls, rows, new_model)
      IN  /\ dimension' = <<1>>
          /\ gauss' = <<create_multivar_normal_dis(cluster[1].means_)>>
          /\ model_list' = <<st.model_list>>
          /\ selector_calls' = st.selector_calls
          /\ IF st.err # "" THEN Aborted(st.err) ELSE pc' = next /\ UNCHANGED <<ret, frame>>
          /\ UNCHANGED <<surrogate_type, values, training_values, test_values,
                         hard, scale_factor, number_cluster, cluster, valid_hard, valid_smooth,
                         provider_calls, inherited, funVars>>

\* train(), line 142: _fit_without_clustering on the training rows
TrainPerClusterFit ==
    /\ pc = "Clustered"
    /\ FitStep(FirstFitRows, TRUE, "PerClusterFit")

\* train(), lines 149-161: rebuild the gate, then _valid on the test rows
TrainValidate ==
    /\ pc = "PerClusterFit"
    /\ LET g == <<create_multivar_normal_dis(cluster[1].means_)>>
           xv == [j \in DOMAIN test_values[1] |-> test_values[1][j].x]
           yv == [j \in DOMAIN test_values[1] |-> Int2Rat(test_values[1][j].y)]
           ys == predict_smooth_output(dimension, cluster, g, model_list, xv)
           yh == predict_hard_output(dimension, cluster, g, model_list, xv)
       IN  /\ gauss' = g
           /\ IF ys.err # ""
              THEN Aborted(ys.err) /\ UNCHANGED <<valid_hard, valid_smooth>>
              ELSE IF yh.err # ""
              THEN Aborted(yh.err) /\ UNCHANGED <<valid_hard, valid_smooth>>
              ELSE /\ valid_hard' = <<Error(yv, yh.val)>>
                   /\ valid_smooth' = <<Error(yv, ys.val)>>
                   /\ pc' = "Validated"
                   /\ UNCHANGED <<ret, frame>>
    /\ UNCHANGED <<surrogate_type, values, training_values, test_values,
                   hard, scale_factor, number_cluster, cluster, dimension, model_list,
                   provider_calls, selector_calls, inherited, funVars>>

\* train(), lines 165-166: _fit_without_clustering on all the rows, new_model=False
TrainRefit ==
    /\ pc = "Validated"
    /\ FitStep(RefitRows, RefitNewModel, "Refit")

\* train() returns
TrainReturn ==
    /\ pc = "Refit"
    /\ pc' = "Trained"
    /\ frame' = NoFrame
    /\ UNCHANGED <<surrogate_type, values, training_values, test_values,
                   hard, scale_factor, number_cluster, cluster, gauss, dimension,
                   model_list, valid_hard, valid_smooth, ret, provider_calls, selector_calls,
                   inherited, funVars>>

\* predict_values(x)
PredictValues ==
    /\ Idle
    /\ \E x \in Batches :
          ret' = [op |-> "predict_values", err |-> analyse_results(x).err]
    /\ UNCHANGED <<moeVars, pc, provider_calls, selector_calls, inherited, funVars>>

Next ==
    \/ TrainSplit
    \/ TrainCluster
    \/ TrainPerClusterFit
    \/ TrainValidate
    \/ TrainRefit
    \/ TrainReturn
    \/ PredictValues

Spec == Init /\ [][Next]_vars

\* the rows train() keeps for training and their number N
TrainingSize == Len(training_values[1])

\* C1 as stated: whenever train() reaches the provider's fit the cluster count
\* K satisfies 1 <= K <= floor(N/10)+1 with N the number of training rows, and
\* for a configured number_cluster outside that range train() raises a
\* configuration error (ValueError) without invoking the provider.
C1_ClusterCountInRange ==
    [][pc = "Split" =>
         LET K == frame.number_cluster
             InRange == 1 <= K /\ K <= (TrainingSize \div 10) + 1
         IN  /\ provider_calls' > provider_calls => InRange
             /\ ~InRange => (pc' = "Aborted" /\ ret'.err = "ValueError" /\ provider_calls' = provider_calls)]_vars

\* C7 as stated: with a catalog of exactly one entry the per-cluster fit
\* completes and model_list holds one trained instance of that candidate per
\* cluster.
C7_SingleCandidateUsed ==
    [][(pc = "Clustered" /\ Len(surrogate_type) = 1) =>
         /\ pc' = "PerClusterFit"
         /\ Len(model_list'[1]) = number_cluster[1]
         /\ \A k \in DOMAIN model_list'[1] : model_list'[1][k].name = surrogate_type[1]]_vars

\* C8 as stated: after train() has aborted, predict_values on a batch of at
\* least one row returns no prediction.
C8_AbortedIsUnusable ==
    pc = "Aborted" => \A x \in Batches : x # <<>> => analyse_results(x).err # ""

\* C5: on every trained instance with exactly one cluster and for every input
\* batch, the hard recombination and the smooth recombination return the same
\* predictions, element by element.
C5_OneClusterHardIsSmooth ==
    (pc = "Trained" /\ number_cluster[1] = 1) =>
        \A x \in Batches :
            LET yh == predict_hard_output(dimension, cluster, gauss, model_list, x)
                ys == predict_smooth_output(dimension, cluster, gauss, model_list, x)
            IN  /\ yh.err = "" /\ ys.err = ""
                /\ Len(yh.val) = Len(x) /\ Len(ys.val) = Len(x)
                /\ \A i \in 1..Len(x) : yh.val[i] = ys.val[i]

\* a trained one-cluster instance whose only component has density 0 at a
\* sample point where its local model predicts a value other than 0
C5_Witness ==
    /\ pc = "Trained" /\ number_cluster[1] = 1
    /\ \E x \in XDom :
          /\ pdf(gauss[1][1], x) = 0
          /\ PredictValue(model_list[1][1], x) # 0
          /\ predict_smooth_output(dimension, cluster, gauss, model_list, <<x>>).val
                 = <<Int2Rat(PredictValue(model_list[1][1], x))>>

\* C9: the refit step of train() leaves unchanged the number of clusters, the
\* hard/smooth mode, the fitted provider and the scale factor, the length of
\* model_list, the type of the model at each cluster index and the two
\* validation reports, and it does not invoke the model selector.
C9_RefitFrame ==
    [][pc = "Validated" =>
         /\ number_cluster' = number_cluster
         /\ hard' = hard
         /\ cluster' = cluster
         /\ scale_factor' = scale_factor
         /\ Len(model_list'[1]) = Len(model_list[1])
         /\ \A k \in DOMAIN model_list[1] : model_list'[1][k].name = model_list[1][k].name
         /\ valid_hard' = valid_hard
         /\ valid_smooth' = valid_smooth
         /\ selector_calls' = selector_calls]_vars

\* a refit on two clusters that has given a local model other rows than the
\* training rows it was selected on
C9_Witness ==
    /\ pc = "Refit"
    /\ number_cluster[1] = 2
    /\ Len(model_list[1]) = 2
    /\ selector_calls = 2
    /\ \E k \in 1..2 : \E j \in DOMAIN model_list[1][k].data :
          model_list[1][k].data[j] \notin Range(training_values[1])

\* the hard label of sample point xi: the lowest index among the components
\* of largest weight_k * pdf_k(xi)
HardLabel(xi) ==
    LET K == Len(cluster[1].weights_)
        raw(k) == cluster[1].weights_[k] * pdf(gauss[1][k], xi)
    IN  (CHOOSE k \in 1..K : /\ \A j \in 1..K : raw(j) <= raw(k)
                             /\ \A j \in 1..(k - 1) : raw(j) < raw(k)) - 1

\* C10: on a trained instance in hard mode predict_values returns, for every
\* input batch, one value per row in input order, the value of row i being the
\* prediction of the local model at the hard label of row i, which is the
\* lowest index among the clusters of largest membership probability.
C10_HardPredict ==
    (pc = "Trained" /\ hard[1]) =>
        \A x \in Batches :
            LET r == analyse_results(x)
            IN  /\ r.err = ""
                /\ Len(r.val) = Len(x)
                /\ \A i \in 1..Len(x) :
                      r.val[i] = Int2Rat(PredictValue(model_list[1][HardLabel(x[i]) + 1], x[i]))

\* a trained two-cluster instance in hard mode and a sample point where both
\* clusters have the same non-zero membership and their local models predict
\* different values
C10_Witness ==
    /\ pc = "Trained" /\ hard[1]
    /\ number_cluster[1] = 2
    /\ \E x \in XDom :
          /\ cluster[1].weights_[1] * pdf(gauss[1][1], x) = cluster[1].weights_[2] * pdf(gauss[1][2], x)
          /\ pdf(gauss[1][1], x) # 0
          /\ PredictValue(model_list[1][1], x) # PredictValue(model_list[1][2], x)
          /\ analyse_results(<<x>>).val = <<Int2Rat(PredictValue(model_list[1][1], x))>>

\* the steps of one train() call, each with the step that follows it
StepPairs ==
    {<<"Configured", "Split">>, <<"Trained", "Split">>, <<"Aborted", "Split">>,
     <<"Split", "Clustered">>, <<"Clustered", "PerClusterFit">>,
     <<"PerClusterFit", "Validated">>, <<"Validated", "Refit">>, <<"Refit", "Trained">>}

\* the steps a running train() call can abort in
AbortPairs == {<<s, "Aborted">> : s \in {"Configured", "Trained", "Aborted", "Split", "Clustered",
                                          "PerClusterFit", "Validated"}}

\* the rows the local models of list ms were last trained on
ModelRows(ms) == UNION {Range(ms[k].data) : k \in DOMAIN ms}

\* C11: a train() call goes through Split, Clustered, PerClusterFit,
\* Validated, Refit, Trained in that order, and only so reaches Trained: the
\* provider is fitted on the training rows only, both validation reports are
\* recorded while every local model has been fitted on training rows only, and
\* the refit on the full data set comes after the reports are recorded, leaves
\* them as they are, and is the last step before train() returns.
C11_StepOrder ==
    [][/\ pc' # pc => <<pc, pc'>> \in StepPairs \cup AbortPairs
       /\ (pc # "Clustered" /\ pc' = "Clustered") =>
             /\ cluster'[1].X = training_values[1]
             /\ Range(cluster'[1].X) \cap Range(test_values[1]) = {}
       /\ (pc # "PerClusterFit" /\ pc' = "PerClusterFit") =>
             /\ valid_hard' = valid_hard /\ valid_smooth' = valid_smooth
             /\ ModelRows(model_list'[1]) \subseteq Range(training_values[1])
       /\ (pc # "Validated" /\ pc' = "Validated") =>
             /\ model_list' = model_list
             /\ ModelRows(model_list[1]) \subseteq Range(training_values[1])
             /\ ModelRows(model_list[1]) \cap Range(test_values[1]) = {}
             /\ valid_hard' # Unset /\ valid_smooth' # Unset
             /\ LET xv == [j \in DOMAIN test_values[1] |-> test_values[1][j].x]
                    yv == [j \in DOMAIN test_values[1] |-> Int2Rat(test_values[1][j].y)]
                IN  /\ valid_hard'[1] =
                          Error(yv, predict_hard_output(dimension, cluster, gauss', model_list, xv).val)
                    /\ valid_smooth'[1] =
                          Error(yv, predict_smooth_output(dimension, cluster, gauss', model_list, xv).val)
       /\ (pc # "Refit" /\ pc' = "Refit") =>
             /\ pc = "Validated"
             /\ valid_hard' = valid_hard /\ valid_smooth' = valid_smooth
             /\ ModelRows(model_list'[1]) = Range(values[1])
       /\ (pc # "Trained" /\ pc' = "Trained") =>
             /\ pc = "Refit"
             /\ <<model_list', cluster', gauss', valid_hard', valid_smooth'>>
                   = <<model_list, cluster, gauss, valid_hard, valid_smooth>>]_vars

\* a train() call on eleven rows and two clusters has returned: the reports
\* are recorded, the provider has seen the nine training rows, and the local
\* models now hold all eleven rows, the two validation rows among them
C11_Witness ==
    /\ pc = "Trained"
    /\ number_cluster[1] = 2
    /\ valid_hard # Unset /\ valid_smooth # Unset
    /\ Len(cluster[1].X) = 9
    /\ Len(test_values[1]) = 2
    /\ Range(test_values[1]) \subseteq ModelRows(model_list[1])
    /\ Cardinality(ModelRows(model_list[1])) = 11

\* m = n * n, for naturals
IsSquareOf(m, n) == IF n = 0 THEN m = 0 ELSE m % n = 0 /\ m \div n = n

\* the rmse of report e is the square root of its mse: both are fractions in
\* lowest terms, so rmse squared is mse exactly when it is so for the
\* numerators and for the denominators
RmseIsRoot(e) ==
    /\ e.rmse[1] >= 0
    /\ IsSquareOf(e.mse[1], e.rmse[1])
    /\ IsSquareOf(e.mse[2], e.rmse[2])

\* C12 as stated: the RMSE of every validation report is the square root of
\* the report's own MSE (rmse squared equals mse), as in _find_best_model and
\* MOE._rmse.
C12_RmseIsRootOfMse ==
    /\ valid_hard # Unset => RmseIsRoot(valid_hard[1])
    /\ valid_smooth # Unset => RmseIsRoot(valid_smooth[1])

-----------------------------------------------------------------------------
\* SpecSplit: cut_list(values, 10), then concat_except(cut_values, 0), on every
\* list of up to MaxLen rows. A row carries its position i and a value v.

SplitRows(vs) == [i \in 1..Len(vs) |-> [i |-> i - 1, v |-> vs[i]]]

InitSplit ==
    /\ Aside
    /\ \E n \in 0..MaxLen : \E vs \in [1..n -> {0, 1}] :
          call = [fn |-> "cut_list", list_ |-> SplitRows(vs)]
    /\ result = NoResult

SplitCut ==
    /\ call.fn = "cut_list"
    /\ result = NoResult
    /\ result' = <<[cut_values |-> cut_list(call.list_, NumBlocks),
                    training_values |-> <<>>, test_values |-> <<>>, done |-> FALSE]>>
    /\ UNCHANGED <<moeVars, obsVars, call>>

SplitConcat ==
    /\ call.fn = "cut_list"
    /\ result # NoResult
    /\ ~result[1].done
    /\ result' = <<[result[1] EXCEPT
                       !.training_values = concat_except(result[1].cut_values, ValidBlock),
                       !.test_values = result[1].cut_values[ValidBlock + 1],
                       !.done = TRUE]>>
    /\ UNCHANGED <<moeVars, obsVars, call>>

NextSplit == SplitCut \/ SplitConcat

SpecSplit == InitSplit /\ [][NextSplit]_vars

\* the rows of list_ whose position is j modulo the number of blocks, in order
RowsOfBlock(list_, j) == SelectSeq(list_, LAMBDA r : r.i % NumBlocks = j)

-----------------------------------------------------------------------------
\* SpecSort: sort_values_by_cluster on every list of up to MaxRows samples, every
\* K up to MaxK and every label vector with values in [0, K).

SampleVals == {"a", "b"}

InitSort ==
    /\ Aside
    /\ \E n \in 0..MaxRows, k \in 0..MaxK :
          \E vs \in [1..n -> SampleVals], ls \in [1..n -> 0..(k - 1)] :
             call = [fn |-> "sort_values_by_cluster", values |-> vs, number_cluster |-> k,
                     sort_cluster |-> ls]
    /\ result = NoResult

SortCall ==
    /\ call.fn = "sort_values_by_cluster"
    /\ result = NoResult
    /\ result' = <<sort_values_by_cluster(call.values, call.number_cluster, call.sort_cluster)>>
    /\ UNCHANGED <<moeVars, obsVars, call>>

NextSort == SortCall

SpecSort == InitSort /\ [][NextSort]_vars

\* the positions (from 1) of the rows labelled k, ascending
PositionsOf(sort_cluster, k) ==
    SelectSeq([i \in 1..Len(sort_cluster) |-> i], LAMBDA i : sort_cluster[i] = k)

\* the rows labelled k, in their original order
RowsLabelled(vals, sort_cluster, k) ==
    LET at == PositionsOf(sort_cluster, k) IN [j \in 1..Len(at) |-> vals[at[j]]]

\* C2: for every sample list, every K and every label vector with values in
\* [0, K), sort_values_by_cluster returns exactly K groups, group k holding
\* the rows labelled k and no others in their original relative order, so that
\* no row is omitted or duplicated (the groups together are the input
\* multiset); a group may be empty and the call returns all the same.
C2_TruePartition ==
    (call.fn = "sort_values_by_cluster" /\ result # NoResult) =>
        LET groups == result[1]
        IN  /\ Len(groups) = call.number_cluster
            /\ \A k \in 0..(call.number_cluster - 1) :
                   groups[k + 1] = RowsLabelled(call.values, call.sort_cluster, k)
            /\ SeqSum([k \in 1..Len(groups) |-> Len(groups[k])]) = Len(call.values)
            /\ SeqToBag(Flatten(groups)) = SeqToBag(call.values)

\* a partition with an empty group between two non-empty ones, one of them
\* holding two different rows
C2_Witness ==
    /\ call.fn = "sort_values_by_cluster" /\ result # NoResult
    /\ call.number_cluster = 3
    /\ result[1][2] = <<>>
    /\ result[1][1] = <<"b", "a">>
    /\ Len(result[1][3]) = 1

-----------------------------------------------------------------------------
\* SpecGate: proba_cluster on every mixture of up to MaxK components with
\* densities up to MaxDens and every batch of up to MaxBatch sample points.

InitGate ==
    /\ Aside
    /\ \E k \in 1..MaxK :
          \E w \in Weights(k), g \in Distributions(k), b \in Batches :
             call = [fn |-> "proba_cluster", weight |-> w, gauss_list |-> g, x |-> b]
    /\ result = NoResult

GateCall ==
    /\ call.fn = "proba_cluster"
    /\ result = NoResult
    /\ result' = <<proba_cluster(call.weight, call.gauss_list, call.x)>>
    /\ UNCHANGED <<moeVars, obsVars, call>>

NextGate == GateCall

SpecGate == InitGate /\ [][NextGate]_vars

\* weight_k * pdf_k(x), for the k-th component (from 1)
RawMembership(weight, gauss_list, x, k) == weight[k] * gauss_list[k][x]

\* the sum of weight_k * pdf_k(x) over all components
RawTotal(weight, gauss_list, x) ==
    SeqSum([k \in 1..Len(weight) |-> RawMembership(weight, gauss_list, x, k)])

\* C4: for every sample and every K >= 1 the gate returns, without raising, a
\* membership vector of K entries. With K = 1 the vector is [1], the hard label
\* is 0 and no density is evaluated. Otherwise entry k is weight_k * pdf_k(x)
\* divided by the sum over all clusters, and the entries sum to 1, when that
\* sum is not zero, and the raw value weight_k * pdf_k(x) when the sum is zero.
C4_GateNormalised ==
    (call.fn = "proba_cluster" /\ result # NoResult) =>
        LET K == Len(call.weight)
            r == result[1]
        IN  /\ r.err = ""
            /\ Len(r.val[1].prob) = Len(call.x)
            /\ Len(r.val[1].clus) = Len(call.x)
            /\ K = 1 => r.val[1].evals = 0
            /\ \A i \in 1..Len(call.x) :
                  LET prob == r.val[1].prob[i]
                      total == RawTotal(call.weight, call.gauss_list, call.x[i])
                  IN  /\ Len(prob) = K
                      /\ IF K = 1
                         THEN prob = <<Int2Rat(1)>> /\ r.val[1].clus[i] = 0
                         ELSE IF total # 0
                         THEN /\ \A k \in 1..K :
                                    prob[k][1] * total =
                                        RawMembership(call.weight, call.gauss_list, call.x[i], k) * prob[k][2]
                              /\ RSum(prob) = Int2Rat(1)
                         ELSE \A k \in 1..K :
                                 prob[k] = Int2Rat(RawMembership(call.weight, call.gauss_list, call.x[i], k))

\* a batch on a three-component mixture with one row of zero total, returned
\* raw, and one row normalised to 1/3, 2/3, 0
C4_Witness ==
    /\ call.fn = "proba_cluster" /\ result # NoResult
    /\ Len(call.weight) = 3
    /\ Len(call.x) = 2
    /\ RawTotal(call.weight, call.gauss_list, call.x[1]) = 0
    /\ result[1].err = ""
    /\ result[1].val[1].prob[1] = <<Int2Rat(0), Int2Rat(0), Int2Rat(0)>>
    /\ result[1].val[1].prob[2] = <<Rat(1, 3), Rat(2, 3), Int2Rat(0)>>

-----------------------------------------------------------------------------
\* SpecSelect: _find_best_model on every catalog of two or three of five
\* regressor types, on an empty and on a non-empty cluster, with every
\* iteration order of the rmses table and every table of validation errors up
\* to MaxErr; the search is then run a second time on the same input.

SelectNames == {"KPLS", "KRG", "LS", "QP", "RMTC"}

\* a catalog iterates each of its names once
SelectCatalogs == {c \in [1..2 -> SelectNames] \cup [1..3 -> SelectNames] :
                      \A i, j \in DOMAIN c : i # j => c[i] # c[j]}

\* the rows of the cluster the search is run on
SelectGroups == {<<>>, <<Row(2), Row(3)>>}

InitSelect ==
    /\ Aside
    /\ \E c \in SelectCatalogs :
          \E o \in Perms(Range(c) \ Excluded), e \in [Range(c) -> 0..MaxErr], g \in SelectGroups :
             call = [fn |-> "_find_best_model", catalog |-> c, order |-> o,
                     sorted_trained_values |-> g,
                     rmses |-> [n \in Range(c) |-> Sqrt(Int2Rat(e[n]))]]
    /\ result = NoResult

\* one run of the search on the call's input
SelectRun ==
    find_best_model(call.catalog, call.order, call.sorted_trained_values,
                    Candidates(call.catalog, call.sorted_trained_values), call.rmses)

SelectCall ==
    /\ call.fn = "_find_best_model"
    /\ result = NoResult
    /\ result' = <<SelectRun>>
    /\ UNCHANGED <<moeVars, obsVars, call>>

SelectAgain ==
    /\ call.fn = "_find_best_model"
    /\ Len(result) = 1
    /\ result' = Append(result, SelectRun)
    /\ UNCHANGED <<moeVars, obsVars, call>>

NextSelect == SelectCall \/ SelectAgain

SpecSelect == InitSelect /\ [][NextSelect]_vars

\* the position (from 1) of name n in the sequence s
PositionIn(s, n) == CHOOSE i \in DOMAIN s : s[i] = n

\* the qualifying names whose error is the lowest of the qualifying names
LowestScored(catalog, rmses) ==
    {n \in Range(catalog) \ Excluded :
        \A m \in Range(catalog) \ Excluded : ~SqrtLess(rmses[m], rmses[n])}

\* the search has a candidate to score and rows to train it on
Selectable == Range(call.catalog) \ Excluded # {} /\ call.sorted_trained_values # <<>>

\* what C6 says of every part but the tie: only the candidates off the
\* exclusion list are trained and scored, and the instance returned is the
\* trained instance of a candidate of lowest error
SelectsLowest(r) ==
    /\ r.err = ""
    /\ Range(r.evaluated) = Range(call.catalog) \ Excluded
    /\ r.val[1].name \in LowestScored(call.catalog, call.rmses)
    /\ r.val[1] = TrainModel(r.val[1].name, call.sorted_trained_values)

-----------------------------------------------------------------------------
\* The model list over several train() calls on one instance (Spec)

\* the rows of list rows that the fitted provider puts in cluster k (from 0)
ClusterRows(rows, k) ==
    RowsLabelled(rows, [j \in DOMAIN rows |-> cluster[1].labels[rows[j].x]], k)

\* the type names the selector can return for the training rows of cluster k
SelectableFor(k) ==
    LET group == ClusterRows(training_values[1], k)
    IN  {find_best_model(surrogate_type, order, group, Candidates(surrogate_type, group),
                         Scores(surrogate_type, group, test_values[1])).val[1].name :
            order \in Perms(Range(surrogate_type) \ Excluded)}

\* C13: whenever the last train() call on the instance has returned, after
\* however many earlier calls, model_list holds exactly number_cluster entries
\* of that call, entry k being a model of a type the selector returns for the
\* training rows of cluster k, fitted on the rows of cluster k; no model of an
\* earlier call is kept or appended to: a call that has passed its checks
\* starts from an empty list and holds number_cluster models from the
\* per-cluster fit on.
C13_ModelListOfLastCall ==
    /\ pc \in {"Split", "Clustered"} => model_list[1] = <<>>
    /\ pc \in {"PerClusterFit", "Validated", "Refit"} => Len(model_list[1]) = number_cluster[1]
    /\ pc = "Trained" =>
          /\ Len(model_list[1]) = number_cluster[1]
          /\ number_cluster[1] = cluster[1].n_components
          /\ \A k \in 0..(number_cluster[1] - 1) :
                /\ model_list[1][k + 1].data = ClusterRows(values[1], k)
                /\ model_list[1][k + 1].name \in SelectableFor(k)

\* a train() call that found two local models of an earlier call on the
\* instance has returned with one cluster and one local model
C13_Witness ==
    /\ pc = "Trained"
    /\ inherited = 2
    /\ number_cluster[1] = 1
    /\ Len(model_list[1]) = 1

====
